---------------------------- MODULE Spec2Model ----------------------------
(***************************************************************************)
(* A model of the notebooks of brevdev/launchables.                        *)
(*                                                                         *)
(*   mistral-finetune-nemo.ipynb     SpecNemo     (variables n_*, ...)     *)
(*   mixtral-finetune-own-data.ipynb SpecMixtral  (variables m_*, ...)     *)
(*   biomistral.ipynb                SpecBio      (variables b_pc, ...)    *)
(*   any one of the three            SpecNotebooks                         *)
(*                                                                         *)
(* Every code cell statement of a notebook is one action; the position in  *)
(* the notebook is the program counter.  Text is a TLA+ string, read       *)
(* character by character with SubSeq.                                     *)
(***************************************************************************)
EXTENDS Integers, Sequences, FiniteSets, TLC

VARIABLES
    n_pc,          \* NeMo notebook: the statement that runs next
    data_files,    \* the PubMedQA split files on disk, as json.load reads them
    out_files,     \* the files written by write_jsonl: path -> text
    n_vars,        \* the notebook's global variables: name -> value
    cfg,           \* the OmegaConf configuration object
    n_trainer,     \* the NeMo trainer: global_step, validations, calls
    n_error        \* the exception that ended the run, or "none"

nemo_vars == <<n_pc, data_files, out_files, n_vars, cfg, n_trainer, n_error>>

VARIABLES
    m_pc,          \* Mixtral notebook: the cell that runs next
    m_data,        \* train_dataset and eval_dataset, as load_dataset returns them
    m_tokenizer,   \* the global tokenizer
    m_heap,        \* the list objects the tokenize functions returned: ref -> list
    m_tokenized,   \* tokenized_train_dataset and tokenized_val_dataset: rows of refs
    m_prompts,     \* the texts formatting_func returned in the last map of train_dataset
    m_trainer,     \* the transformers.Trainer: its arguments and its progress
    m_files,       \* the checkpoint directories on disk
    m_run,         \* how trainer.train() ended: "none", "completed", "interrupted"
    ft_model,      \* the adapter that PeftModel.from_pretrained loaded
    m_error,       \* the exception that ended the run, or "none"
    m_peft         \* the global config and the LoRA configuration of model

mixtral_vars == <<m_pc, m_data, m_tokenizer, m_heap, m_tokenized, m_prompts,
                  m_trainer, m_files, m_run, ft_model, m_error, m_peft>>

VARIABLES
    b_pc,          \* BioMistral notebook: the cell that runs next
    b_vars,        \* the names the cells have bound
    b_out,         \* the texts the notebook printed
    b_error        \* the exception that ended the run, or "none"

bio_vars == <<b_pc, b_vars, b_out, b_error>>

VARIABLE
    ran            \* the statements the kernel has started, in order

vars == <<nemo_vars, mixtral_vars, bio_vars, ran>>

-----------------------------------------------------------------------------
(* Bounds of the model.                                                      *)

\* the largest number of entries of the PubMedQA pool that Init splits
MaxEntries == 2

\* the largest number of samples of train_dataset and of eval_dataset
MaxSamples == 1

\* the number of characters of the longest note
MaxNoteLen == 466

-----------------------------------------------------------------------------
(* Text helpers.                                                             *)

Ch(s, i) == SubSeq(s, i, i)

Max(a, b) == IF a >= b THEN a ELSE b

-----------------------------------------------------------------------------
(* json.dumps, as write_jsonl calls it (default arguments: ensure_ascii,     *)
(* separators ", " and ": ", keys in insertion order).                       *)

\* variant: the characters are written between the quotes as they are
EscapeCharRaw(c) == c

\* json.dumps of one character of a str
EscapeChar(c) ==
    CASE c = "\"" -> "\\\""
      [] c = "\\" -> "\\\\"
      [] c = "\n" -> "\\n"
      [] c = "\r" -> "\\r"
      [] c = "\t" -> "\\t"
      [] OTHER    -> c

\* the escaped characters lo..hi of s, joined (by halves: the text is long)
RECURSIVE EscapeRange(_, _, _)
EscapeRange(s, lo, hi) ==
    IF lo > hi THEN ""
    ELSE IF lo = hi THEN EscapeChar(Ch(s, lo))
    ELSE LET mid == (lo + hi) \div 2 IN
         EscapeRange(s, lo, mid) \o EscapeRange(s, mid + 1, hi)

\* json.dumps of a str
DumpsStr(s) == "\"" \o EscapeRange(s, 1, Len(s)) \o "\""

RECURSIVE DumpsItems(_, _)
DumpsItems(o, i) ==
    IF i > Len(o) THEN ""
    ELSE (IF i > 1 THEN ", " ELSE "")
         \o DumpsStr(o[i][1]) \o ": " \o DumpsStr(o[i][2])
         \o DumpsItems(o, i + 1)

\* json.dumps of a dict of str -> str; a dict is the sequence of its items
Dumps(o) == "{" \o DumpsItems(o, 1) \o "}"

-----------------------------------------------------------------------------
(* Reading a JSON-lines file back: the lines of a text file as Python's      *)
(* universal-newline reader yields them, and json.loads of one line.         *)

IsNewline(c) == c = "\n" \/ c = "\r"

\* the index of the first line terminator of s at or after i, 0 when none
NextNewline(s, i) ==
    IF \E j \in i..Len(s) : IsNewline(Ch(s, j))
    THEN CHOOSE j \in i..Len(s) :
            /\ IsNewline(Ch(s, j))
            /\ \A k \in i..(j - 1) : ~IsNewline(Ch(s, k))
    ELSE 0

RECURSIVE LinesFrom(_, _)
LinesFrom(s, i) ==
    IF i > Len(s) THEN <<>>
    ELSE LET j == NextNewline(s, i) IN
         IF j = 0 THEN <<SubSeq(s, i, Len(s))>>
         ELSE LET after == IF Ch(s, j) = "\r" /\ j < Len(s) /\ Ch(s, j + 1) = "\n"
                           THEN j + 2 ELSE j + 1
              IN <<SubSeq(s, i, j - 1)>> \o LinesFrom(s, after)

\* the lines of a text, without their terminators
Lines(s) == LinesFrom(s, 1)

Unescape(c) ==
    CASE c = "n" -> "\n"
      [] c = "r" -> "\r"
      [] c = "t" -> "\t"
      [] OTHER   -> c

\* the number of backslashes that end right before position p of s, counted
\* no further back than position i (the first character of the literal)
BackslashRun(s, i, p) ==
    CHOOSE k \in 0..(p - i) :
        /\ \A m \in 1..k : Ch(s, p - m) = "\\"
        /\ k = p - i \/ Ch(s, p - k - 1) # "\\"

\* position p of the literal that starts at i is the second character of an
\* escape sequence
IsEscaped(s, i, p) == BackslashRun(s, i, p) % 2 = 1

\* what the characters lo..hi of the literal that starts at i stand for
RECURSIVE UnescapeRange(_, _, _, _)
UnescapeRange(s, i, lo, hi) ==
    IF lo > hi THEN ""
    ELSE IF lo = hi
         THEN IF IsEscaped(s, i, lo) THEN Unescape(Ch(s, lo))
              ELSE IF Ch(s, lo) = "\\" THEN ""
              ELSE Ch(s, lo)
    ELSE LET mid == (lo + hi) \div 2 IN
         UnescapeRange(s, i, lo, mid) \o UnescapeRange(s, i, mid + 1, hi)

\* json.loads of a string literal whose first character (after the opening
\* quote) is at i: [ok, val, next], next being the index after the closing
\* quote, which is the first quote that no backslash escapes
ParseStr(s, i) ==
    LET closing == {j \in i..Len(s) : Ch(s, j) = "\"" /\ ~IsEscaped(s, i, j)} IN
    IF closing = {} THEN [ok |-> FALSE, val |-> "", next |-> i]
    ELSE LET j == CHOOSE x \in closing : \A y \in closing : x <= y IN
         [ok |-> TRUE, val |-> UnescapeRange(s, i, i, j - 1), next |-> j + 1]

ParseError == <<"JSONDecodeError">>

\* json.loads of the items of an object, the first item's opening quote at i
RECURSIVE ParseItems(_, _, _)
ParseItems(s, i, acc) ==
    IF i > Len(s) \/ Ch(s, i) # "\"" THEN ParseError
    ELSE LET k == ParseStr(s, i + 1) IN
         IF ~k.ok \/ SubSeq(s, k.next, k.next + 2) # ": \"" THEN ParseError
         ELSE LET v == ParseStr(s, k.next + 3) IN
              IF ~v.ok THEN ParseError
              ELSE LET items == Append(acc, <<k.val, v.val>>) IN
                   IF SubSeq(s, v.next, Len(s)) = "}" THEN items
                   ELSE IF SubSeq(s, v.next, v.next + 1) = ", "
                        THEN ParseItems(s, v.next + 2, items)
                   ELSE ParseError

\* json.loads of one line holding a dict of str -> str
Loads(s) ==
    IF s = "{}" THEN <<>>
    ELSE IF Len(s) < 2 \/ Ch(s, 1) # "{" THEN ParseError
    ELSE ParseItems(s, 2, <<>>)

-----------------------------------------------------------------------------
(* The PubMedQA data the NeMo notebook reads.  A data dictionary is the      *)
(* sequence of its <<key, entry>> items, in the order json.load keeps.       *)

Entry(q, ctxs, labels, pred, fd) ==
    [QUESTION |-> q, CONTEXTS |-> ctxs, LABELS |-> labels,
     reasoning_required_pred |-> pred, final_decision |-> fd]

\* entries of the shapes the code distinguishes: no context, text with
\* characters json.dumps escapes, fewer labels than contexts, and more
\* labels than contexts (form_question indexes CONTEXTS by LABELS)
Entries ==
    { Entry("Q?", <<>>, <<>>, "yes", "no"),
      Entry("a\nb\\n\"c\"", <<"c1\r\n", "c\t2">>, <<"BACKGROUND", "RESULTS">>, "no", "yes"),
      Entry("x", <<"c1", "c2">>, <<"METHODS">>, "maybe", "yes"),
      Entry("y", <<"c1">>, <<"METHODS", "RESULTS">>, "yes", "yes") }

\* the key of the i-th entry of the pool; later entries have smaller keys,
\* so insertion order and sorted order differ
KeyAt(i) == ToString(300 - i)

Splits == {"test", "train", "dev"}

RECURSIVE SelectSplit(_, _, _, _)
SelectSplit(pool, assign, split, i) ==
    IF i > Len(pool) THEN <<>>
    ELSE (IF assign[i] = split THEN <<<<KeyAt(i), pool[i]>>>> ELSE <<>>)
         \o SelectSplit(pool, assign, split, i + 1)

Pools == UNION { [1..n -> Entries] : n \in 0..MaxEntries }

-----------------------------------------------------------------------------
(* The helpers of the NeMo notebook.                                         *)

\* a path with no file; of a file, text is what is on disk and objs records
\* the list that write_jsonl was called with
NoFile == [exists |-> FALSE, text |-> "", objs |-> <<>>]

RECURSIVE JsonlText(_, _)
JsonlText(json_objs, i) ==
    IF i > Len(json_objs) THEN ""
    ELSE Dumps(json_objs[i]) \o "\n" \o JsonlText(json_objs, i + 1)

\* write_jsonl(fname, json_objs): the file system after the call
write_jsonl(fs, fname, json_objs) ==
    [fs EXCEPT ![fname] = [exists |-> TRUE, text |-> JsonlText(json_objs, 1),
                          objs |-> json_objs]]

\* form_question raises IndexError when CONTEXTS is shorter than LABELS
form_question_raises(obj) == Len(obj.LABELS) > Len(obj.CONTEXTS)

RECURSIVE ContextLines(_, _)
ContextLines(obj, i) ==
    IF i > Len(obj.LABELS) THEN ""
    ELSE obj.CONTEXTS[i] \o "\n" \o ContextLines(obj, i + 1)

form_question(obj) ==
    "QUESTION:" \o obj.QUESTION \o "\n"
    \o "CONTEXT: "
    \o ContextLines(obj, 1)
    \o "TARGET: the answer to the question given the context is (yes|no|maybe): "

\* variant: the completion is the entry's other answer field
completion_final_decision(obj) == obj.final_decision

\* variant: the completion is the entry's question
completion_question(obj) == obj.QUESTION

\* completion = obj['reasoning_required_pred']
completion(obj) == obj.reasoning_required_pred

\* the list json_objs that convert_to_jsonl builds from the loaded data
json_objs_of(data) ==
    [i \in 1..Len(data) |->
        << <<"input", form_question(data[i][2])>>,
           <<"output", completion(data[i][2])>> >>]

convert_to_jsonl_raises(data) ==
    \E i \in 1..Len(data) : form_question_raises(data[i][2])

\* convert_to_jsonl(data_path, output_path): the returned list and the file
\* system after the call (the call does not raise)
convert_to_jsonl(fs, data, output_path) ==
    LET json_objs == json_objs_of(data) IN
    [ret |-> json_objs, fs |-> write_jsonl(fs, output_path, json_objs)]

-----------------------------------------------------------------------------
(* The NeMo notebook, statement by statement.                                *)

Unbound == [bound |-> FALSE, val |-> <<>>]

DataPaths ==
    {"pubmedqa/data/test_set.json",
     "pubmedqa/data/pqal_fold0/train_set.json",
     "pubmedqa/data/pqal_fold0/dev_set.json"}

JsonlPaths == {"pubmedqa_test.jsonl", "pubmedqa_train.jsonl", "pubmedqa_val.jsonl"}

\* the three calls of convert_to_jsonl, in the order of the cell
ConvertCalls ==
    << [data_path |-> "pubmedqa/data/test_set.json",
        output_path |-> "pubmedqa_test.jsonl", target |-> "test_json_objs"],
       [data_path |-> "pubmedqa/data/pqal_fold0/train_set.json",
        output_path |-> "pubmedqa_train.jsonl", target |-> "train_json_objs"],
       [data_path |-> "pubmedqa/data/pqal_fold0/dev_set.json",
        output_path |-> "pubmedqa_val.jsonl", target |-> "dev_json_objs"] >>

NoCfg == [composed |-> FALSE, data |-> <<>>, model |-> <<>>, trainer |-> <<>>]

\* what hydra.compose reads from the downloaded YAML for the keys the
\* notebook later sets; the file is fetched at run time, so its values are
\* a choice
DefaultTrainerCfgs ==
    { [k \in {"devices", "num_nodes", "precision", "val_check_interval", "max_steps"} |->
         CASE k = "devices" -> 1
           [] k = "num_nodes" -> 1
           [] k = "precision" -> "16"
           [] k = "val_check_interval" -> v
           [] k = "max_steps" -> m] : v \in {10, 200}, m \in {50, 1000} }

\* the num_workers that the downloaded YAML gives the data sets
DefaultNumWorkers == {0, 4}

\* what hydra.compose reads from the downloaded YAML for model.data
DefaultDataCfgs ==
    { [ds \in {"train_ds", "validation_ds", "test_ds"} |->
         [num_workers |-> w, file_names |-> <<>>]] : w \in DefaultNumWorkers }

\* OmegaConf.update(cfg, key, value): the node after the update; the keys of
\* value take value's entries, the other keys of the node are kept
OmegaConfUpdate(node, value) ==
    [k \in (DOMAIN node) \cup (DOMAIN value) |->
        IF k \in DOMAIN value THEN value[k] ELSE node[k]]

\* the value of the cell "OmegaConf.update(cfg, "trainer", ...)"
TrainerOverrides ==
    [k \in {"devices", "num_nodes", "precision", "val_check_interval", "max_steps"} |->
        CASE k = "devices" -> 1
          [] k = "num_nodes" -> 1
          [] k = "precision" -> "bf16-mixed"
          [] k = "val_check_interval" -> 10
          [] k = "max_steps" -> 20]

\* variant: the training set is loaded by worker processes
DataOverridesWorkers ==
    [train_ds |-> [num_workers |-> 4, file_names |-> <<"pubmedqa_train.jsonl">>,
                   concat_sampling_probabilities |-> <<10>>],
     validation_ds |-> [num_workers |-> 0, file_names |-> <<"pubmedqa_val.jsonl">>],
     test_ds |-> [file_names |-> <<"pubmedqa_test.jsonl">>, names |-> <<"pubmedqa">>]]

\* variant: the validation set reads the file of the test split
DataOverridesValOnTest ==
    [train_ds |-> [num_workers |-> 0, file_names |-> <<"pubmedqa_train.jsonl">>,
                   concat_sampling_probabilities |-> <<10>>],
     validation_ds |-> [num_workers |-> 0, file_names |-> <<"pubmedqa_test.jsonl">>],
     test_ds |-> [file_names |-> <<"pubmedqa_test.jsonl">>, names |-> <<"pubmedqa">>]]

\* the value of the cell "OmegaConf.update(cfg, "model.data", ...)"
DataOverrides ==
    [train_ds |-> [num_workers |-> 0, file_names |-> <<"pubmedqa_train.jsonl">>,
                   concat_sampling_probabilities |-> <<10>>],
     validation_ds |-> [num_workers |-> 0, file_names |-> <<"pubmedqa_val.jsonl">>],
     test_ds |-> [file_names |-> <<"pubmedqa_test.jsonl">>, names |-> <<"pubmedqa">>]]

\* the value of the cell "OmegaConf.update(cfg, "model", ...)"
ModelOverrides ==
    [restore_from_path |-> "models/mistral7b.nemo",
     peft |-> [peft_scheme |-> "lora"],
     tensor_model_parallel_size |-> 1,
     pipeline_model_parallel_size |-> 1,
     micro_batch_size |-> 1,
     global_batch_size |-> 8]

\* the statements of the code cells, top to bottom; the cell of the three
\* convert_to_jsonl calls and the cell of add_adapter and fit are split into
\* their statements
NemoCells ==
    << "pip_install", "mkdir", "notebook_login", "snapshot_download", "convert_hf",
       "git_clone", "def_helpers", "convert_1", "convert_2", "convert_3",
       "show_example", "wget_config", "hydra_init", "compose", "update_data",
       "update_model", "update_trainer", "create_trainer", "test_base",
       "add_adapter", "fit", "test_tuned", "done" >>

\* the cells whose effect is outside the state of the model
NemoPlainCells ==
    { "pip_install", "mkdir", "notebook_login", "convert_hf", "git_clone",
      "def_helpers", "wget_config", "hydra_init" }

NemoNextCell(c) ==
    NemoCells[1 + CHOOSE i \in 1..Len(NemoCells) : NemoCells[i] = c]

\* where a reader starts: at the top, or, with a .nemo file at hand, at
\* "Prepare Data" ("you can skip this step")
NemoStarts == {"pip_install", "git_clone"}

NoTrainer ==
    [created |-> FALSE, global_step |-> 0, val_steps |-> {}, calls |-> <<>>,
     adapter |-> FALSE, max_steps |-> 0, val_check_interval |-> 0]

\* the other notebook is not running
MixtralOff ==
    /\ m_pc = "off" /\ m_data = "off" /\ m_tokenizer = "off" /\ m_heap = "off"
    /\ m_tokenized = "off" /\ m_prompts = "off" /\ m_trainer = "off"
    /\ m_files = "off" /\ m_run = "off" /\ ft_model = "off" /\ m_error = "off"
    /\ m_peft = "off"

\* the BioMistral notebook is not running
BioOff ==
    /\ b_pc = "off" /\ b_vars = "off" /\ b_out = "off" /\ b_error = "off"

InitNemo ==
    /\ n_pc \in NemoStarts
    /\ \E pool \in Pools :
         \E assign \in [1..Len(pool) -> Splits] :
            data_files =
               [p \in DataPaths |->
                  CASE p = "pubmedqa/data/test_set.json" -> SelectSplit(pool, assign, "test", 1)
                    [] p = "pubmedqa/data/pqal_fold0/train_set.json" -> SelectSplit(pool, assign, "train", 1)
                    [] p = "pubmedqa/data/pqal_fold0/dev_set.json" -> SelectSplit(pool, assign, "dev", 1)]
    /\ out_files = [p \in JsonlPaths |-> NoFile]
    /\ n_vars = [v \in {"test_json_objs", "train_json_objs", "dev_json_objs"} |-> Unbound]
    /\ cfg = NoCfg
    /\ n_trainer = NoTrainer
    /\ n_error = "none"
    /\ ran = <<>>
    /\ MixtralOff
    /\ BioOff

\* variant: the exception is swallowed and the next statement runs
NemoRaiseGoOn(exc) ==
    /\ n_pc' = NemoNextCell(n_pc)
    /\ n_error' = exc

\* an exception leaves the cell: nothing that follows runs
NemoRaise(exc) ==
    /\ n_pc' = "failed"
    /\ n_error' = exc

\* a cell whose effect is outside the state of the model
NemoPlainCell ==
    /\ n_pc \in NemoPlainCells
    /\ ran' = Append(ran, n_pc)
    /\ n_pc' = NemoNextCell(n_pc)
    /\ UNCHANGED <<data_files, out_files, n_vars, cfg, n_trainer, n_error, mixtral_vars, bio_vars>>

\* huggingface_hub.snapshot_download(...): the cells before it bind
\* notebook_login only, the name huggingface_hub is not defined
SnapshotDownload ==
    /\ n_pc = "snapshot_download"
    /\ ran' = Append(ran, n_pc)
    /\ NemoRaise("NameError")
    /\ UNCHANGED <<data_files, out_files, n_vars, cfg, n_trainer, mixtral_vars, bio_vars>>

\* <target> = convert_to_jsonl(<data_path>, <output_path>), the i-th of the cell
ConvertCell(i) ==
    /\ n_pc = "convert_" \o ToString(i)
    /\ ran' = Append(ran, n_pc)
    /\ LET call == ConvertCalls[i]
           data == data_files[call.data_path]
       IN IF convert_to_jsonl_raises(data)
          THEN /\ NemoRaise("IndexError")
               /\ UNCHANGED <<out_files, n_vars>>
          ELSE LET r == convert_to_jsonl(out_files, data, call.output_path) IN
               /\ out_files' = r.fs
               /\ n_vars' = [n_vars EXCEPT ![call.target] = [bound |-> TRUE, val |-> r.ret]]
               /\ n_pc' = IF i < Len(ConvertCalls)
                          THEN "convert_" \o ToString(i + 1) ELSE "show_example"
               /\ UNCHANGED n_error
    /\ UNCHANGED <<data_files, cfg, n_trainer, mixtral_vars, bio_vars>>

\* test_json_objs[0]
ShowExample ==
    /\ n_pc = "show_example"
    /\ ran' = Append(ran, n_pc)
    /\ IF Len(n_vars["test_json_objs"].val) = 0
       THEN NemoRaise("IndexError")
       ELSE n_pc' = "wget_config" /\ UNCHANGED n_error
    /\ UNCHANGED <<data_files, out_files, n_vars, cfg, n_trainer, mixtral_vars, bio_vars>>

\* cfg = hydra.compose(config_name=..., overrides=['++model.mcore_gpt=True'])
Compose ==
    /\ n_pc = "compose"
    /\ ran' = Append(ran, n_pc)
    /\ \E t \in DefaultTrainerCfgs, d \in DefaultDataCfgs :
          cfg' = [composed |-> TRUE, data |-> d,
                  model |-> [mcore_gpt |-> TRUE], trainer |-> t]
    /\ n_pc' = "update_data"
    /\ UNCHANGED <<data_files, out_files, n_vars, n_trainer, n_error, mixtral_vars, bio_vars>>

\* OmegaConf.update(cfg, "model.data", {...}, merge=True)
UpdateData ==
    /\ n_pc = "update_data"
    /\ ran' = Append(ran, n_pc)
    /\ cfg' = [cfg EXCEPT !.data =
                  [ds \in DOMAIN cfg.data |-> OmegaConfUpdate(cfg.data[ds], DataOverrides[ds])]]
    /\ n_pc' = "update_model"
    /\ UNCHANGED <<data_files, out_files, n_vars, n_trainer, n_error, mixtral_vars, bio_vars>>

\* OmegaConf.update(cfg, "model", {...}, merge=True)
UpdateModel ==
    /\ n_pc = "update_model"
    /\ ran' = Append(ran, n_pc)
    /\ cfg' = [cfg EXCEPT !.model = OmegaConfUpdate(cfg.model, ModelOverrides)]
    /\ n_pc' = "update_trainer"
    /\ UNCHANGED <<data_files, out_files, n_vars, n_trainer, n_error, mixtral_vars, bio_vars>>

\* OmegaConf.update(cfg, "trainer", {...})
UpdateTrainer ==
    /\ n_pc = "update_trainer"
    /\ ran' = Append(ran, n_pc)
    /\ cfg' = [cfg EXCEPT !.trainer = OmegaConfUpdate(cfg.trainer, TrainerOverrides)]
    /\ n_pc' = "create_trainer"
    /\ UNCHANGED <<data_files, out_files, n_vars, n_trainer, n_error, mixtral_vars, bio_vars>>

\* trainer = MegatronLMPPTrainerBuilder(cfg).create_trainer(); the model is
\* restored with this trainer
CreateTrainer ==
    /\ n_pc = "create_trainer"
    /\ ran' = Append(ran, n_pc)
    /\ n_trainer' = [NoTrainer EXCEPT !.created = TRUE,
                                      !.max_steps = cfg.trainer["max_steps"],
                                      !.val_check_interval = cfg.trainer["val_check_interval"]]
    /\ n_pc' = "test_base"
    /\ UNCHANGED <<data_files, out_files, n_vars, cfg, n_error, mixtral_vars, bio_vars>>

\* trainer.test(model), before and after training
TrainerTest(here, next) ==
    /\ n_pc = here
    /\ ran' = Append(ran, n_pc)
    /\ n_trainer' = [n_trainer EXCEPT !.calls = Append(@, "test")]
    /\ n_pc' = next
    /\ UNCHANGED <<data_files, out_files, n_vars, cfg, n_error, mixtral_vars, bio_vars>>

\* variant: the cell that adds the adapter is passed over
TestBaseThenFit == TrainerTest("test_base", "fit")

TestBase == TrainerTest("test_base", "add_adapter")

TestTuned == TrainerTest("test_tuned", "done")

\* model.add_adapter(LoraPEFTConfig(model_cfg))
AddAdapter ==
    /\ n_pc = "add_adapter"
    /\ ran' = Append(ran, n_pc)
    /\ n_trainer' = [n_trainer EXCEPT !.adapter = TRUE, !.calls = Append(@, "add_adapter")]
    /\ n_pc' = "fit"
    /\ UNCHANGED <<data_files, out_files, n_vars, cfg, n_error, mixtral_vars, bio_vars>>

\* trainer.fit(model) is entered
FitStart ==
    /\ n_pc = "fit"
    /\ ran' = Append(ran, n_pc)
    /\ n_trainer' = [n_trainer EXCEPT !.calls = Append(@, "fit")]
    /\ n_pc' = "fitting"
    /\ UNCHANGED <<data_files, out_files, n_vars, cfg, n_error, mixtral_vars, bio_vars>>

\* the training loop stops once global_step reaches max_steps
fit_stops(tr) == tr.global_step >= tr.max_steps

\* one optimizer step of trainer.fit, with the validation run it triggers
FitStep ==
    /\ n_pc = "fitting"
    /\ UNCHANGED ran
    /\ ~fit_stops(n_trainer)
    /\ LET step == n_trainer.global_step + 1 IN
       n_trainer' = [n_trainer EXCEPT
          !.global_step = step,
          !.val_steps = IF step % n_trainer.val_check_interval = 0
                        THEN @ \cup {step} ELSE @]
    /\ UNCHANGED <<n_pc, data_files, out_files, n_vars, cfg, n_error, mixtral_vars, bio_vars>>

\* trainer.fit(model) returns
FitReturn ==
    /\ n_pc = "fitting"
    /\ UNCHANGED ran
    /\ fit_stops(n_trainer)
    /\ n_pc' = "test_tuned"
    /\ UNCHANGED <<data_files, out_files, n_vars, cfg, n_trainer, n_error, mixtral_vars, bio_vars>>

NextNemo ==
    \/ NemoPlainCell
    \/ SnapshotDownload
    \/ \E i \in 1..Len(ConvertCalls) : ConvertCell(i)
    \/ ShowExample
    \/ Compose
    \/ UpdateData
    \/ UpdateModel
    \/ UpdateTrainer
    \/ CreateTrainer
    \/ TestBase
    \/ AddAdapter
    \/ FitStart
    \/ FitStep
    \/ FitReturn
    \/ TestTuned

SpecNemo == InitNemo /\ [][NextNemo]_vars

-----------------------------------------------------------------------------
(* Claims about the NeMo notebook.                                           *)

\* C1: write_jsonl writes one JSON object per line: every file it wrote has
\* exactly as many lines as the list it was given has objects, and parsing
\* line i as JSON gives back object i, also when the strings of the objects
\* hold newline characters.
C1_OneObjectPerLine ==
    \A p \in JsonlPaths :
        out_files[p].exists =>
            LET lines == Lines(out_files[p].text) IN
            /\ Len(lines) = Len(out_files[p].objs)
            /\ \A i \in 1..Len(lines) : Loads(lines[i]) = out_files[p].objs[i]

\* C1 witness: a file of two objects was written, one of them with a line
\* feed, a carriage return, a quote and a backslash in its prompt.
C1_Witness ==
    \E p \in JsonlPaths :
        /\ out_files[p].exists
        /\ Len(out_files[p].objs) = 2
        /\ \E i \in 1..2 :
              LET prompt == out_files[p].objs[i][1][2] IN
              \A c \in {"\n", "\r", "\"", "\\"} :
                 \E j \in 1..Len(prompt) : Ch(prompt, j) = c

\* C2: convert_to_jsonl returns one record per key of the data dictionary, in
\* key order; record i has exactly the fields 'input', the prompt that
\* form_question builds from entry i, and 'output', the entry's
\* 'reasoning_required_pred'; the returned list is the list that was written
\* to the output file of the call.
C2_OneRecordPerKey ==
    \A i \in 1..Len(ConvertCalls) :
        LET call == ConvertCalls[i]
            data == data_files[call.data_path]
            ret  == n_vars[call.target]
        IN ret.bound =>
            /\ Len(ret.val) = Len(data)
            /\ \A k \in 1..Len(data) :
                  /\ Len(ret.val[k]) = 2
                  /\ ret.val[k][1] = <<"input", form_question(data[k][2])>>
                  /\ ret.val[k][2] = <<"output", data[k][2].reasoning_required_pred>>
            /\ out_files[call.output_path].exists
            /\ out_files[call.output_path].objs = ret.val

\* C2 witness: a call returned two records for a dictionary of two keys.
C2_Witness ==
    \E i \in 1..Len(ConvertCalls) :
        /\ n_vars[ConvertCalls[i].target].bound
        /\ Len(data_files[ConvertCalls[i].data_path]) = 2
        /\ Len(n_vars[ConvertCalls[i].target].val) = 2

\* C10: the NeMo notebook trains the adapter for 50 steps: when trainer.fit
\* has returned, the trainer has made 50 steps.
C10_TrainsFor50Steps ==
    n_pc \in {"test_tuned", "done"} => n_trainer.global_step = 50

\* the 'output' values of the records that convert_to_jsonl gave write_jsonl
\* to write
WrittenOutputs ==
    UNION { { out_files[p].objs[i][2][2] : i \in 1..Len(out_files[p].objs) } :
            p \in {q \in JsonlPaths : out_files[q].exists} }

TrainerCallOrder == <<"test", "add_adapter", "fit", "test">>

\* C12: in the NeMo notebook the calls are trainer.test, then
\* model.add_adapter, then trainer.fit, then trainer.test: the calls made so
\* far are always the first ones of that list, the adapter is added exactly
\* once, trainer.fit is only ever entered on a model that has the adapter,
\* and a run that reaches the end has made all four calls.
C12_TestAdapterFitTest ==
    LET calls == n_trainer.calls IN
    /\ Len(calls) <= Len(TrainerCallOrder)
    /\ calls = SubSeq(TrainerCallOrder, 1, Len(calls))
    /\ Cardinality({i \in 1..Len(calls) : calls[i] = "add_adapter"}) <= 1
    /\ n_trainer.adapter <=> (\E i \in 1..Len(calls) : calls[i] = "add_adapter")
    /\ (n_pc = "fitting" \/ \E i \in 1..Len(calls) : calls[i] = "fit") => n_trainer.adapter
    /\ n_pc = "done" => calls = TrainerCallOrder

\* C12 witness: the last cell has returned after a training run with steps.
C12_Witness ==
    /\ n_pc = "done"
    /\ n_trainer.global_step > 0
    /\ Len(n_trainer.calls) = 4

\* the file of the PubMedQA split that each data set of model.data is for
SplitFile ==
    [train_ds |-> "pubmedqa/data/pqal_fold0/train_set.json",
     validation_ds |-> "pubmedqa/data/pqal_fold0/dev_set.json",
     test_ds |-> "pubmedqa/data/test_set.json"]

\* the files named in model.data, all data sets together
ConfiguredFiles ==
    UNION { { cfg.data[ds].file_names[i] : i \in 1..Len(cfg.data[ds].file_names) } :
            ds \in DOMAIN SplitFile }

\* C13: once the trainer is created, every file named in model.data
\* (train_ds, validation_ds, test_ds) is the output path of a convert_to_jsonl
\* call that has run and holds the records of that call; the train file
\* comes from the train split, the validation file from the dev split and
\* the test file from the test split, and no file is named for two data sets.
C13_DataFilesFromTheirSplit ==
    n_trainer.created =>
        /\ \A ds \in DOMAIN SplitFile :
              /\ Len(cfg.data[ds].file_names) = 1
              /\ \E i \in 1..Len(ConvertCalls) :
                    /\ ConvertCalls[i].output_path = cfg.data[ds].file_names[1]
                    /\ ConvertCalls[i].data_path = SplitFile[ds]
                    /\ n_vars[ConvertCalls[i].target].bound
                    /\ out_files[ConvertCalls[i].output_path].exists
                    /\ out_files[ConvertCalls[i].output_path].objs
                          = json_objs_of(data_files[SplitFile[ds]])
        /\ Cardinality(ConfiguredFiles) = Cardinality(DOMAIN SplitFile)

\* C13 witness: the trainer is created and is training on a train file
\* whose records differ from those of the validation file and the test file.
C13_Witness ==
    /\ n_trainer.created
    /\ n_pc = "fitting"
    /\ out_files["pubmedqa_train.jsonl"].objs # out_files["pubmedqa_val.jsonl"].objs
    /\ out_files["pubmedqa_train.jsonl"].objs # out_files["pubmedqa_test.jsonl"].objs
    /\ out_files["pubmedqa_val.jsonl"].objs # out_files["pubmedqa_test.jsonl"].objs

-----------------------------------------------------------------------------
(* The Mixtral notebook: prompt formatting and tokenization.                 *)

max_length == 512

unk_token_id == 0
bos_token_id == 1
eos_token_id == 2

\* a string of n characters c (by halves: the notes are long)
RECURSIVE Rep(_, _)
Rep(c, n) ==
    IF n <= 0 THEN ""
    ELSE IF n = 1 THEN c
    ELSE Rep(c, n \div 2) \o Rep(c, n - (n \div 2))

\* variant: the template is filled with another field of the record
formatting_func_title(example) ==
    "### The following is a note by Eevee the Dog: " \o example["title"]

\* formatting_func(example)
formatting_func(example) ==
    "### The following is a note by Eevee the Dog: " \o example["note"]

\* the note that, formatted and tokenized with bos and eos, has exactly
\* max_length tokens
FitNoteLen == max_length - Len(formatting_func([note |-> "", title |-> ""])) - 2

\* the records of notes.jsonl and notes_validation.jsonl: a short note with
\* characters outside the vocabulary, a note that fits max_length exactly,
\* and a note that is too long
Examples ==
    { [note |-> "Hi\n", title |-> "a"],
      [note |-> Rep("a", FitNoteLen), title |-> "b"],
      [note |-> Rep("t", MaxNoteLen), title |-> "c"] }

Datasets == UNION { [1..n -> Examples] : n \in 1..MaxSamples }

\* the characters that have a token of their own; any other is <unk>
Vocab == "#: DETabcefghilnostvwy"

\* the id of the token of one character of the text
TokenId(c) ==
    IF \E i \in 1..Len(Vocab) : Ch(Vocab, i) = c
    THEN eos_token_id + (CHOOSE i \in 1..Len(Vocab) : Ch(Vocab, i) = c)
    ELSE unk_token_id

NoTokenizer ==
    [defined |-> FALSE, padding_side |-> "default", add_eos_token |-> FALSE,
     add_bos_token |-> FALSE, pad_token_id |-> -1]

\* AutoTokenizer.from_pretrained(base_model_id, padding_side="left",
\* add_eos_token=True, add_bos_token=True); tokenizer.pad_token = tokenizer.eos_token
TrainingTokenizer ==
    [defined |-> TRUE, padding_side |-> "left", add_eos_token |-> TRUE,
     add_bos_token |-> TRUE, pad_token_id |-> eos_token_id]

\* AutoTokenizer.from_pretrained(base_model_id, add_bos_token=True)
InferenceTokenizer ==
    [defined |-> TRUE, padding_side |-> "default", add_eos_token |-> FALSE,
     add_bos_token |-> TRUE, pad_token_id |-> -1]

\* the tokens of a text with the special tokens, cut to max_len when
\* truncation is asked for: the text's tokens are cut on the right to leave
\* room for the special tokens, which are then added
Truncate(tok, content, truncation, max_len) ==
    LET special == (IF tok.add_bos_token THEN 1 ELSE 0) + (IF tok.add_eos_token THEN 1 ELSE 0)
        kept == IF truncation /\ Len(content) + special > max_len
                THEN SubSeq(content, 1, Max(max_len - special, 0))
                ELSE content
    IN (IF tok.add_bos_token THEN <<bos_token_id>> ELSE <<>>)
       \o kept
       \o (IF tok.add_eos_token THEN <<eos_token_id>> ELSE <<>>)

\* variant: padding to the longest sample of the call, which is the sample
\* itself
PadCountLongest(ids, padding, max_len) == 0

\* the number of pad tokens that padding="max_length" adds
PadCount(ids, padding, max_len) ==
    IF padding = "max_length" THEN Max(max_len - Len(ids), 0) ELSE 0

\* variant: the pads go to the right
PadRight(tok, ids, pad, n) == ids \o [i \in 1..n |-> pad]

\* pads go to the side the tokenizer was created with
Pad(tok, ids, pad, n) ==
    IF tok.padding_side = "right"
    THEN ids \o [i \in 1..n |-> pad]
    ELSE [i \in 1..n |-> pad] \o ids

\* tokenizer(text, truncation=..., max_length=..., padding=...): the
\* BatchEncoding, as a record of lists
Tokenize(tok, text, truncation, max_len, padding) ==
    LET content == [i \in 1..Len(text) |-> TokenId(Ch(text, i))]
        ids     == Truncate(tok, content, truncation, max_len)
        n       == PadCount(ids, padding, max_len)
    IN [input_ids      |-> Pad(tok, ids, tok.pad_token_id, n),
        attention_mask |-> Pad(tok, [i \in 1..Len(ids) |-> 1], 0, n)]

\* padding is asked of a tokenizer that has no pad token: ValueError
tokenize_raises(tok, padding) == padding = "max_length" /\ tok.pad_token_id < 0

\* variant: labels is bound to the list input_ids itself
list_alias(heap, ref) == [heap |-> heap, ref |-> ref]

\* list.copy(): a new list object with the same elements
list_copy(heap, ref) == [heap |-> Append(heap, heap[ref]), ref |-> Len(heap) + 1]

\* generate_and_tokenize_prompt(prompt): the heap after the call and the
\* returned row, whose fields refer to list objects of the heap
generate_and_tokenize_prompt(tok, heap, prompt) ==
    LET result == Tokenize(tok, formatting_func(prompt), FALSE, 0, "none")
        h1 == Append(heap, result.input_ids)
        h2 == Append(h1, result.attention_mask)
    IN [heap |-> h2,
        row  |-> [f \in {"input_ids", "attention_mask"} |->
                    IF f = "input_ids" THEN Len(h1) ELSE Len(h2)]]

\* generate_and_tokenize_prompt2(prompt)
generate_and_tokenize_prompt2(tok, heap, prompt) ==
    LET result == Tokenize(tok, formatting_func(prompt), TRUE, max_length, "max_length")
        h1 == Append(heap, result.input_ids)
        h2 == Append(h1, result.attention_mask)
        labels == list_copy(h2, Len(h1))
    IN [heap |-> labels.heap,
        row  |-> [f \in {"input_ids", "attention_mask", "labels"} |->
                    CASE f = "input_ids" -> Len(h1)
                      [] f = "attention_mask" -> Len(h2)
                      [] f = "labels" -> labels.ref]]

\* dataset.map(function): the heap and the rows after the samples i.. of the
\* dataset went through the function, which is the second one when second holds
RECURSIVE MapFrom(_, _, _, _, _, _)
MapFrom(tok, heap, dataset, second, i, rows) ==
    IF i > Len(dataset) THEN [heap |-> heap, rows |-> rows]
    ELSE LET r == IF second
                  THEN generate_and_tokenize_prompt2(tok, heap, dataset[i])
                  ELSE generate_and_tokenize_prompt(tok, heap, dataset[i])
         IN MapFrom(tok, r.heap, dataset, second, i + 1, Append(rows, r.row))

-----------------------------------------------------------------------------
(* The Mixtral notebook: the training run and its checkpoints.               *)

project == "journal-finetune"
base_model_name == "mixtral"
run_name == base_model_name \o "-" \o project

\* variant: the directory is named after the W&B project
output_dir_wandb == "./" \o "viggo-finetune"

output_dir == "./" \o run_name

\* transformers.TrainingArguments(...), the arguments that decide when the
\* trainer stops, logs, evaluates and saves (logging_strategy is the
\* default, "steps")
TrainingArguments ==
    [output_dir |-> output_dir,
     max_steps |-> 300,
     logging_strategy |-> "steps",
     logging_steps |-> 25,
     save_strategy |-> "steps",
     save_steps |-> 25,
     evaluation_strategy |-> "steps",
     eval_steps |-> 25]

\* variant: the values of the QLoRA paper that the markdown cites
LoraConfigPaper ==
    [r |-> 64,
     lora_alpha |-> 16,
     target_modules |-> <<"q_proj", "k_proj", "v_proj", "o_proj", "w1", "w2", "w3", "lm_head">>,
     bias |-> "none",
     task_type |-> "CAUSAL_LM"]

\* config = LoraConfig(...) (lora_dropout, 0.05, is left out)
LoraConfig ==
    [r |-> 32,
     lora_alpha |-> 64,
     target_modules |-> <<"q_proj", "k_proj", "v_proj", "o_proj", "w1", "w2", "w3", "lm_head">>,
     bias |-> "none",
     task_type |-> "CAUSAL_LM"]

NoConfig == [r |-> 0, lora_alpha |-> 0, target_modules |-> <<>>, bias |-> "", task_type |-> ""]

\* config is the global of that name, model_config the configuration of
\* the adapter that get_peft_model put on model
NoPeft == [config |-> NoConfig, model_config |-> NoConfig]

NoMixtralTrainer ==
    [created |-> FALSE, args |-> <<>>, global_step |-> 0,
     logged |-> {}, evaluated |-> {}, saved |-> {}, peft_config |-> NoConfig]

\* the loss is logged after this step
should_log(args, step) ==
    args.logging_strategy = "steps" /\ step % args.logging_steps = 0

\* variant: the period is twice the logging period, as the comment has it
should_evaluate_50(args, step) ==
    args.evaluation_strategy = "steps" /\ step % (2 * args.logging_steps) = 0

\* the model is evaluated after this step
should_evaluate(args, step) ==
    args.evaluation_strategy = "steps" /\ step % args.eval_steps = 0

\* variant: the period is twice the logging period, as the comment has it
should_save_50(args, step) ==
    args.save_strategy = "steps" /\ step % (2 * args.logging_steps) = 0

\* a checkpoint is saved after this step
should_save(args, step) ==
    args.save_strategy = "steps" /\ step % args.save_steps = 0

\* the directory of the checkpoint of a step
checkpoint_dir(dir, step) == dir \o "/" \o "checkpoint-" \o ToString(step)

\* the path without its leading "./" components
RECURSIVE NormPath(_)
NormPath(path) ==
    IF Len(path) >= 2 /\ SubSeq(path, 1, 2) = "./"
    THEN NormPath(SubSeq(path, 3, Len(path)))
    ELSE path

\* the argument of PeftModel.from_pretrained
AdapterPath == "mixtral-journal-finetune/checkpoint-275"

-----------------------------------------------------------------------------
(* The Mixtral notebook, cell by cell.                                       *)

\* variant: the prompt is run through the model in the third cell
MixtralCellsGenerateEarly ==
    << "install", "wandb", "base_generate", "load_dataset", "def_formatting_func",
       "notebook_login", "nvidia_smi", "load_model", "tokenizer", "map_1", "plot_1",
       "def_tokenize_2", "map_2", "print_sample", "plot_2", "eval_prompt_1",
       "eval_prompt_2", "prepare_kbit", "def_print_trainable", "print_model_1",
       "lora_config", "print_model_2", "tokenizer_again", "parallel", "train",
       "restart", "load_base", "load_adapter", "ft_generate", "done" >>

MixtralCells ==
    << "install", "wandb", "load_dataset", "def_formatting_func", "notebook_login",
       "nvidia_smi", "load_model", "tokenizer", "map_1", "plot_1", "def_tokenize_2",
       "map_2", "print_sample", "plot_2", "eval_prompt_1", "eval_prompt_2",
       "base_generate", "prepare_kbit", "def_print_trainable", "print_model_1",
       "lora_config", "print_model_2", "tokenizer_again", "parallel", "train",
       "restart", "load_base", "load_adapter", "ft_generate", "done" >>

\* the cells whose effect is outside the state of the model
PlainCells ==
    { "install", "wandb", "def_formatting_func", "notebook_login", "nvidia_smi",
      "load_model", "plot_1", "def_tokenize_2", "print_sample", "plot_2",
      "eval_prompt_1", "eval_prompt_2", "prepare_kbit", "def_print_trainable",
      "print_model_1", "print_model_2", "parallel", "ft_generate" }

NextCell(c) ==
    MixtralCells[1 + CHOOSE i \in 1..Len(MixtralCells) : MixtralCells[i] = c]

NoData == [loaded |-> FALSE, train_dataset |-> <<>>, eval_dataset |-> <<>>]

NoTokenized == [train |-> <<>>, val |-> <<>>]

NoAdapter == [loaded |-> FALSE, path |-> ""]

NemoOff ==
    /\ n_pc = "off" /\ data_files = "off" /\ out_files = "off" /\ n_vars = "off"
    /\ cfg = "off" /\ n_trainer = "off" /\ n_error = "off"

InitMixtral ==
    /\ m_pc = "install"
    /\ m_data = NoData
    /\ m_tokenizer = NoTokenizer
    /\ m_heap = <<>>
    /\ m_tokenized = NoTokenized
    /\ m_prompts = <<>>
    /\ m_trainer = NoMixtralTrainer
    /\ m_files = {}
    /\ m_run = "none"
    /\ ft_model = NoAdapter
    /\ m_error = "none"
    /\ m_peft = NoPeft
    /\ ran = <<>>
    /\ NemoOff
    /\ BioOff

\* a cell whose effect is outside the state of the model
PlainCell ==
    /\ m_pc \in PlainCells
    /\ ran' = Append(ran, m_pc)
    /\ m_pc' = NextCell(m_pc)
    /\ UNCHANGED <<m_data, m_tokenizer, m_heap, m_tokenized, m_prompts, m_trainer,
                   m_files, m_run, ft_model, m_error, m_peft, nemo_vars, bio_vars>>

\* train_dataset = load_dataset('json', data_files='notes.jsonl', split='train')
\* eval_dataset = load_dataset('json', data_files='notes_validation.jsonl', split='train')
LoadDataset ==
    /\ m_pc = "load_dataset"
    /\ ran' = Append(ran, m_pc)
    /\ \E tr \in Datasets, ev \in Datasets :
          m_data' = [loaded |-> TRUE, train_dataset |-> tr, eval_dataset |-> ev]
    /\ m_pc' = NextCell(m_pc)
    /\ UNCHANGED <<m_tokenizer, m_heap, m_tokenized, m_prompts, m_trainer,
                   m_files, m_run, ft_model, m_error, m_peft, nemo_vars, bio_vars>>

\* the two cells that create the tokenizer that pads on the left
TokenizerCell ==
    /\ m_pc \in {"tokenizer", "tokenizer_again"}
    /\ ran' = Append(ran, m_pc)
    /\ m_tokenizer' = TrainingTokenizer
    /\ m_pc' = NextCell(m_pc)
    /\ UNCHANGED <<m_data, m_heap, m_tokenized, m_prompts, m_trainer,
                   m_files, m_run, ft_model, m_error, m_peft, nemo_vars, bio_vars>>

\* tokenized_train_dataset = train_dataset.map(f)
\* tokenized_val_dataset = eval_dataset.map(f)
\* with f the first tokenize function in cell map_1, the second in map_2
MapCell ==
    /\ m_pc \in {"map_1", "map_2"}
    /\ ran' = Append(ran, m_pc)
    /\ LET second == m_pc = "map_2" IN
       IF second /\ tokenize_raises(m_tokenizer, "max_length")
       THEN /\ m_pc' = "failed"
            /\ m_error' = "ValueError"
            /\ UNCHANGED <<m_heap, m_tokenized, m_prompts>>
       ELSE LET tr == MapFrom(m_tokenizer, <<>>, m_data.train_dataset, second, 1, <<>>)
                ev == MapFrom(m_tokenizer, tr.heap, m_data.eval_dataset, second, 1, <<>>)
            IN /\ m_heap' = ev.heap
               /\ m_tokenized' = [train |-> tr.rows, val |-> ev.rows]
               /\ m_prompts' = [i \in 1..Len(m_data.train_dataset) |->
                                   formatting_func(m_data.train_dataset[i])]
               /\ m_pc' = NextCell(m_pc)
               /\ UNCHANGED m_error
    /\ UNCHANGED <<m_data, m_tokenizer, m_trainer, m_files, m_run, ft_model, m_peft, nemo_vars, bio_vars>>

\* the cells that re-create the tokenizer without padding and without eos:
\* the generation with the base model, and the loading of the base model
\* after the restart
InferenceTokenizerCell ==
    /\ m_pc \in {"base_generate", "load_base"}
    /\ ran' = Append(ran, m_pc)
    /\ m_tokenizer' = InferenceTokenizer
    /\ m_pc' = NextCell(m_pc)
    /\ UNCHANGED <<m_data, m_heap, m_tokenized, m_prompts, m_trainer,
                   m_files, m_run, ft_model, m_error, m_peft, nemo_vars, bio_vars>>

\* config = LoraConfig(...); model = get_peft_model(model, config)
LoraCell ==
    /\ m_pc = "lora_config"
    /\ ran' = Append(ran, m_pc)
    /\ m_peft' = [config |-> LoraConfig, model_config |-> LoraConfig]
    /\ m_pc' = NextCell(m_pc)
    /\ UNCHANGED <<m_data, m_tokenizer, m_heap, m_tokenized, m_prompts, m_trainer,
                   m_files, m_run, ft_model, m_error, nemo_vars, bio_vars>>

\* trainer = transformers.Trainer(model=model, ..., args=transformers.TrainingArguments(...));
\* trainer.train() is entered
TrainStart ==
    /\ m_pc = "train"
    /\ ran' = Append(ran, m_pc)
    /\ m_trainer' = [NoMixtralTrainer EXCEPT !.created = TRUE, !.args = TrainingArguments,
                                             !.peft_config = m_peft.model_config]
    /\ m_pc' = "training"
    /\ UNCHANGED <<m_data, m_tokenizer, m_heap, m_tokenized, m_prompts,
                   m_files, m_run, ft_model, m_error, m_peft, nemo_vars, bio_vars>>

\* one optimizer step of trainer.train(), with the logging, the evaluation
\* and the checkpoint it triggers
TrainStep ==
    /\ m_pc = "training"
    /\ UNCHANGED ran
    /\ m_trainer.global_step < m_trainer.args.max_steps
    /\ LET step == m_trainer.global_step + 1
           args == m_trainer.args
       IN /\ m_trainer' = [m_trainer EXCEPT
                !.global_step = step,
                !.logged = IF should_log(args, step) THEN @ \cup {step} ELSE @,
                !.evaluated = IF should_evaluate(args, step) THEN @ \cup {step} ELSE @,
                !.saved = IF should_save(args, step) THEN @ \cup {step} ELSE @]
          /\ m_files' = IF should_save(args, step)
                        THEN m_files \cup {checkpoint_dir(args.output_dir, step)}
                        ELSE m_files
    /\ UNCHANGED <<m_pc, m_data, m_tokenizer, m_heap, m_tokenized, m_prompts,
                   m_run, ft_model, m_error, m_peft, nemo_vars, bio_vars>>

\* trainer.train() raises in a step: "OutOfMemoryError: CUDA out of memory"
TrainFail ==
    /\ m_pc = "training"
    /\ UNCHANGED ran
    /\ m_trainer.global_step < m_trainer.args.max_steps
    /\ m_pc' = "failed"
    /\ m_error' = "OutOfMemoryError"
    /\ UNCHANGED <<m_data, m_tokenizer, m_heap, m_tokenized, m_prompts, m_trainer,
                   m_files, m_run, ft_model, m_peft, nemo_vars, bio_vars>>

\* trainer.train() returns: max_steps steps were made
TrainReturn ==
    /\ m_pc = "training"
    /\ UNCHANGED ran
    /\ m_trainer.global_step >= m_trainer.args.max_steps
    /\ m_run' = "completed"
    /\ m_pc' = "restart"
    /\ UNCHANGED <<m_data, m_tokenizer, m_heap, m_tokenized, m_prompts, m_trainer,
                   m_files, ft_model, m_error, m_peft, nemo_vars, bio_vars>>

\* Kernel -> Interrupt Kernel while trainer.train() runs
InterruptKernel ==
    /\ m_pc = "training"
    /\ UNCHANGED ran
    /\ m_trainer.global_step < m_trainer.args.max_steps
    /\ m_run' = "interrupted"
    /\ m_pc' = "restart"
    /\ UNCHANGED <<m_data, m_tokenizer, m_heap, m_tokenized, m_prompts, m_trainer,
                   m_files, ft_model, m_error, m_peft, nemo_vars, bio_vars>>

\* Kernel -> Restart Kernel before step 6: the variables are gone, the files stay
RestartKernel ==
    /\ m_pc = "restart"
    /\ ran' = Append(ran, m_pc)
    /\ m_data' = NoData
    /\ m_tokenizer' = NoTokenizer
    /\ m_heap' = <<>>
    /\ m_tokenized' = NoTokenized
    /\ m_prompts' = <<>>
    /\ m_trainer' = NoMixtralTrainer
    /\ m_peft' = NoPeft
    /\ m_pc' = NextCell(m_pc)
    /\ UNCHANGED <<m_files, m_run, ft_model, m_error, nemo_vars, bio_vars>>

\* the adapter directory is on disk
adapter_found(files, path) == \E f \in files : NormPath(f) = NormPath(path)

\* ft_model = PeftModel.from_pretrained(base_model, "mixtral-journal-finetune/checkpoint-275")
LoadAdapter ==
    /\ m_pc = "load_adapter"
    /\ ran' = Append(ran, m_pc)
    /\ IF adapter_found(m_files, AdapterPath)
       THEN /\ ft_model' = [loaded |-> TRUE, path |-> AdapterPath]
            /\ m_pc' = NextCell(m_pc)
            /\ UNCHANGED m_error
       ELSE /\ m_pc' = "failed"
            /\ m_error' = "ValueError"
            /\ UNCHANGED ft_model
    /\ UNCHANGED <<m_data, m_tokenizer, m_heap, m_tokenized, m_prompts, m_trainer,
                   m_files, m_run, m_peft, nemo_vars, bio_vars>>

NextMixtral ==
    \/ PlainCell
    \/ LoadDataset
    \/ TokenizerCell
    \/ MapCell
    \/ InferenceTokenizerCell
    \/ LoraCell
    \/ TrainStart
    \/ TrainStep
    \/ TrainFail
    \/ TrainReturn
    \/ InterruptKernel
    \/ RestartKernel
    \/ LoadAdapter

SpecMixtral == InitMixtral /\ [][NextMixtral]_vars

-----------------------------------------------------------------------------
(* The BioMistral notebook, cell by cell.                                    *)

BioCells == << "install", "load_model", "generate", "done" >>

BioNextCell(c) ==
    BioCells[1 + CHOOSE i \in 1..Len(BioCells) : BioCells[i] = c]

model_id == "BioMistral/BioMistral-7B"

eval_prompt == "The best way to "

max_new_tokens == 100

\* the character of a token id
TokenChar(id) ==
    IF id > eos_token_id /\ id <= eos_token_id + Len(Vocab)
    THEN Ch(Vocab, id - eos_token_id) ELSE ""

\* tokenizer.decode(ids, skip_special_tokens=True), by halves
RECURSIVE DecodeRange(_, _, _)
DecodeRange(ids, lo, hi) ==
    IF lo > hi THEN ""
    ELSE IF lo = hi THEN TokenChar(ids[lo])
    ELSE LET mid == (lo + hi) \div 2 IN
         DecodeRange(ids, lo, mid) \o DecodeRange(ids, mid + 1, hi)

Decode(ids) == DecodeRange(ids, 1, Len(ids))

\* what model.generate(..., max_new_tokens=100) may add to the prompt: the
\* end of sequence at once, some tokens and the end of sequence, or
\* max_new_tokens tokens with no end of sequence
NewTokens ==
    { <<eos_token_id>>,
      [i \in 1..Len("eat well") |-> TokenId(Ch("eat well", i))] \o <<eos_token_id>>,
      [i \in 1..max_new_tokens |-> TokenId("a")] }

\* the other notebooks are not running
InitBio ==
    /\ b_pc = "install"
    /\ b_vars = <<>>
    /\ b_out = <<>>
    /\ b_error = "none"
    /\ ran = <<>>
    /\ NemoOff
    /\ MixtralOff

\* an exception leaves the cell: nothing that follows runs
BioRaise(exc) ==
    /\ b_pc' = "failed"
    /\ b_error' = exc

\* !pip install -q -U torch torchvision ...
BioInstall ==
    /\ b_pc = "install"
    /\ ran' = Append(ran, b_pc)
    /\ b_pc' = BioNextCell(b_pc)
    /\ UNCHANGED <<b_vars, b_out, b_error, nemo_vars, mixtral_vars>>

\* model_id = ...; bnb_config = ...; model = AutoModelForCausalLM.from_pretrained(...);
\* eval_tokenizer = AutoTokenizer.from_pretrained(model_id, add_bos_token=True, ...);
\* loading the model may run out of GPU memory, after the statements before it
BioLoadModel ==
    /\ b_pc = "load_model"
    /\ ran' = Append(ran, b_pc)
    /\ LET before == [v \in {"model_id", "bnb_config"} |->
                        IF v = "model_id" THEN model_id ELSE "BitsAndBytesConfig"]
       IN \/ /\ b_vars' = [v \in {"model_id", "bnb_config", "model", "eval_tokenizer"} |->
                              CASE v = "model" -> model_id
                                [] v = "eval_tokenizer" -> InferenceTokenizer
                                [] OTHER -> before[v]]
             /\ b_pc' = BioNextCell(b_pc)
             /\ UNCHANGED b_error
          \/ /\ b_vars' = before
             /\ BioRaise("OutOfMemoryError")
    /\ UNCHANGED <<b_out, nemo_vars, mixtral_vars>>

\* eval_prompt = ...; model_input = eval_tokenizer(eval_prompt, ...);
\* print(eval_tokenizer.decode(model.generate(**model_input, max_new_tokens=100, ...)[0],
\*                             skip_special_tokens=True))
BioGenerate ==
    /\ b_pc = "generate"
    /\ ran' = Append(ran, b_pc)
    /\ LET model_input == Tokenize(b_vars["eval_tokenizer"], eval_prompt, FALSE, 0, "none")
           bound == [v \in DOMAIN b_vars \cup {"eval_prompt", "model_input"} |->
                       CASE v = "eval_prompt" -> eval_prompt
                         [] v = "model_input" -> model_input
                         [] OTHER -> b_vars[v]]
       IN /\ b_vars' = bound
          /\ \/ \E new \in NewTokens :
                   /\ b_out' = Append(b_out, Decode(model_input.input_ids \o new))
                   /\ b_pc' = BioNextCell(b_pc)
                   /\ UNCHANGED b_error
             \/ /\ BioRaise("OutOfMemoryError")
                /\ UNCHANGED b_out
    /\ UNCHANGED <<nemo_vars, mixtral_vars>>

NextBio ==
    \/ BioInstall
    \/ BioLoadModel
    \/ BioGenerate

SpecBio == InitBio /\ [][NextBio]_vars

-----------------------------------------------------------------------------
(* A reader runs one of the three notebooks.                                 *)

InitNotebooks ==
    \/ InitNemo
    \/ InitMixtral
    \/ InitBio

NextNotebooks ==
    \/ NemoPlainCell
    \/ SnapshotDownload
    \/ \E i \in 1..Len(ConvertCalls) : ConvertCell(i)
    \/ ShowExample
    \/ Compose
    \/ UpdateData
    \/ UpdateModel
    \/ UpdateTrainer
    \/ CreateTrainer
    \/ TestBase
    \/ AddAdapter
    \/ FitStart
    \/ FitStep
    \/ FitReturn
    \/ TestTuned
    \/ PlainCell
    \/ LoadDataset
    \/ TokenizerCell
    \/ MapCell
    \/ InferenceTokenizerCell
    \/ LoraCell
    \/ TrainStart
    \/ TrainStep
    \/ TrainFail
    \/ TrainReturn
    \/ InterruptKernel
    \/ RestartKernel
    \/ LoadAdapter
    \/ BioInstall
    \/ BioLoadModel
    \/ BioGenerate

SpecNotebooks == InitNotebooks /\ [][NextNotebooks]_vars

-----------------------------------------------------------------------------
(* Claims about the Mixtral notebook.                                        *)

\* the cells that run with the datasets of cell map_2
AfterMap2 ==
    m_pc \in { "print_sample", "plot_2", "eval_prompt_1", "eval_prompt_2",
               "base_generate", "prepare_kbit", "def_print_trainable",
               "print_model_1", "lora_config", "print_model_2", "tokenizer_again",
               "parallel", "train", "training", "restart" }

\* the rows of a tokenized dataset
RowsOf(tokenized) == {tokenized[i] : i \in 1..Len(tokenized)}

\* the number of padding positions of a row
Padding(row) ==
    LET mask == m_heap[row["attention_mask"]] IN
    Cardinality({i \in 1..Len(mask) : mask[i] = 0})

\* C3: formatting_func returns the fixed template string followed by the
\* record's 'note' field and nothing else, whatever the other fields of the
\* record are.
C3_TemplateThenNote ==
    m_pc # "off" =>
        \A i \in 1..Len(m_prompts) :
            m_prompts[i] =
                "### The following is a note by Eevee the Dog: "
                \o m_data.train_dataset[i]["note"]

\* C3 witness: formatting_func was applied to a record whose other field
\* differs from its note.
C3_Witness ==
    /\ m_pc # "off"
    /\ Len(m_prompts) >= 1
    /\ m_data.train_dataset[1]["note"] = "Hi\n"
    /\ m_data.train_dataset[1]["title"] # m_data.train_dataset[1]["note"]

\* C4: after the datasets are mapped with generate_and_tokenize_prompt2,
\* every sample of the training and of the validation set has input_ids of
\* exactly max_length tokens, whether the prompt was shorter or longer.
C4_AllSamplesMaxLength ==
    AfterMap2 =>
        \A row \in RowsOf(m_tokenized.train) \cup RowsOf(m_tokenized.val) :
            Len(m_heap[row["input_ids"]]) = max_length

\* C4 witness: a prompt shorter than max_length and a prompt longer than
\* max_length were mapped.
C4_Witness ==
    /\ AfterMap2
    /\ Len(m_prompts[1]) + 2 < max_length
    /\ Len(formatting_func(m_data.eval_dataset[1])) + 2 > max_length
    /\ Len(m_tokenized.val) >= 1

\* C5: every tokenized training sample has its padding on the left, made of
\* the eos token (2); the prompt starts with the bos token (1) right after
\* the padding; the last token of the sequence is an eos token (2).
C5_LeftPaddedBosEos ==
    AfterMap2 =>
        \A row \in RowsOf(m_tokenized.train) :
            LET ids  == m_heap[row["input_ids"]]
                mask == m_heap[row["attention_mask"]]
                p    == Padding(row)
            IN /\ \A i \in 1..p : mask[i] = 0 /\ ids[i] = 2
               /\ p < Len(ids)
               /\ ids[p + 1] = 1
               /\ ids[Len(ids)] = 2

\* C5 witness: a training sample with padding, and one that was truncated.
C5_Witness ==
    /\ AfterMap2
    /\ \E row \in RowsOf(m_tokenized.train) : Padding(row) > 0
    /\ \E row \in RowsOf(m_tokenized.val) : Padding(row) = 0

\* C6: in every sample generate_and_tokenize_prompt2 returns, labels is
\* element for element equal to input_ids, padding included, and labels is
\* another list object than input_ids.
C6_LabelsCopyOfInputIds ==
    AfterMap2 =>
        \A row \in RowsOf(m_tokenized.train) \cup RowsOf(m_tokenized.val) :
            /\ "labels" \in DOMAIN row
            /\ m_heap[row["labels"]] = m_heap[row["input_ids"]]
            /\ row["labels"] # row["input_ids"]

\* C6 witness: a returned sample with padding positions and with labels.
C6_Witness ==
    /\ AfterMap2
    /\ \E row \in RowsOf(m_tokenized.train) :
          "labels" \in DOMAIN row /\ Padding(row) > 0 /\ Len(m_heap[row["labels"]]) > 0

\* C7: in the training run, the steps at which a checkpoint is saved, the
\* steps at which the model is evaluated and the steps at which the loss
\* is logged are the same set.
C7_SaveEvalAtLoggingSteps ==
    m_pc # "off" =>
        /\ m_trainer.saved = m_trainer.logged
        /\ m_trainer.evaluated = m_trainer.logged

\* C7 witness: the run has passed two logging steps.
C7_Witness ==
    /\ m_pc = "training"
    /\ Cardinality(m_trainer.logged) >= 2
    /\ m_trainer.saved # {}

C9_LoadedCheckpointWasSaved ==
    m_run = "completed" =>
        /\ checkpoint_dir(output_dir, 275) \in m_files
        /\ NormPath(checkpoint_dir(output_dir, 275)) = NormPath(AdapterPath)
        /\ output_dir = "./" \o base_model_name \o "-" \o project
        /\ 275 <= TrainingArguments.max_steps
        /\ m_error = "none"
        /\ m_pc \in {"ft_generate", "done"} => ft_model.loaded

\* C9 witness: the run completed and step 6 loaded the adapter.
C9_Witness ==
    /\ m_run = "completed"
    /\ m_pc = "done"
    /\ ft_model.loaded
    /\ ft_model.path = "mixtral-journal-finetune/checkpoint-275"

-----------------------------------------------------------------------------
(* Claims about the three notebooks together.                                *)

\* the phases, in the order the overview of the notebooks lists them
PhaseOrder ==
    << "install", "download", "dataset", "tokenize", "configure", "train", "generate" >>

\* the phase a statement belongs to, "none" for the statements that only
\* log in, show, plot, print, evaluate or restart
PhaseOf(c) ==
    CASE c \in {"pip_install", "install", "wandb"} -> "install"
      [] c \in {"snapshot_download", "convert_hf", "load_model", "load_base"} -> "download"
      [] c \in {"git_clone", "def_helpers", "convert_1", "convert_2", "convert_3",
                "load_dataset", "def_formatting_func"} -> "dataset"
      [] c \in {"tokenizer", "map_1", "def_tokenize_2", "map_2", "tokenizer_again"} -> "tokenize"
      [] c \in {"wget_config", "hydra_init", "compose", "update_data", "update_model",
                "update_trainer", "create_trainer", "add_adapter", "prepare_kbit",
                "lora_config", "parallel"} -> "configure"
      [] c \in {"fit", "train"} -> "train"
      [] c \in {"base_generate", "ft_generate", "generate"} -> "generate"
      [] OTHER -> "none"

Rank(phase) == CHOOSE i \in 1..Len(PhaseOrder) : PhaseOrder[i] = phase

\* the positions of ran whose statement belongs to a phase
Phased == {i \in 1..Len(ran) : PhaseOf(ran[i]) # "none"}

\* the last statement of the notebook has returned
NotebookDone == n_pc = "done" \/ m_pc = "done" \/ b_pc = "done"

\* C14 as stated: the phases of a notebook come in the order install,
\* download, dataset, tokenize, configure, train, generate, every phase
\* after all the phases listed before it, and a notebook that has run to
\* its end has ended by printing generated text.
C14_PhasesInListedOrder ==
    /\ \A i, j \in Phased : i < j => Rank(PhaseOf(ran[i])) <= Rank(PhaseOf(ran[j]))
    /\ NotebookDone => PhaseOf(ran[Len(ran)]) = "generate"

\* C14: the statements of a notebook run one after the other, and of the
\* phases the following order holds in every notebook: installing is done
\* before anything else; a training job runs only after a dataset was
\* loaded and the training was configured; generated text is printed only
\* after a pretrained model was downloaded; the Mixtral and the BioMistral
\* notebook end by printing generated text and the NeMo notebook ends with
\* trainer.test.
C14_PhasesPartlyOrdered ==
    /\ \A i \in 1..Len(ran) :
          /\ PhaseOf(ran[i]) = "install" =>
                \A j \in 1..(i - 1) : PhaseOf(ran[j]) = "install"
          /\ PhaseOf(ran[i]) = "train" =>
                /\ \E j \in 1..(i - 1) : PhaseOf(ran[j]) = "dataset"
                /\ \E j \in 1..(i - 1) : PhaseOf(ran[j]) = "configure"
          /\ PhaseOf(ran[i]) = "generate" =>
                \E j \in 1..(i - 1) : PhaseOf(ran[j]) = "download"
    /\ m_pc = "done" => ran[Len(ran)] = "ft_generate"
    /\ b_pc = "done" => ran[Len(ran)] = "generate" /\ Len(b_out) = 1
    /\ n_pc = "done" => ran[Len(ran)] = "test_tuned"

\* C14 witness: the Mixtral notebook has run to its end, with the dataset
\* loaded before the model was downloaded and generated text printed
\* before the training.
C14_Witness ==
    /\ m_pc = "done"
    /\ \E i, j, k, l \in 1..Len(ran) :
          /\ i < j /\ j < k /\ k < l
          /\ ran[i] = "load_dataset" /\ ran[j] = "load_model"
          /\ ran[k] = "base_generate" /\ ran[l] = "train"

\* the library calls that have been entered and have not returned (a call
\* that a statement makes and that returns in the same step is never seen
\* in progress)
InProgress ==
    (IF n_pc = "fitting" THEN {"trainer.fit"} ELSE {})
    \cup (IF m_pc = "training" THEN {"trainer.train"} ELSE {})

\* model.data holds the values of the cell that sets them
DataConfigured ==
    n_pc \in {"update_model", "update_trainer", "create_trainer", "test_base",
              "add_adapter", "fit", "fitting", "test_tuned", "done"}

\* no statement starts while a call is in progress, and at most one call is
\* in progress
OneCallAtATime ==
    /\ Cardinality(InProgress) <= 1
    /\ m_pc = "training" => ran[Len(ran)] = "train"
    /\ n_pc = "fitting" => ran[Len(ran)] = "fit"

Failed == n_pc = "failed" \/ m_pc = "failed" \/ b_pc = "failed"

\* the step in which a statement raises: the exception is recorded as it
\* was raised, the run stops at that statement, and what the earlier
\* statements bound, configured, trained and wrote is as it was
RaisingStep ==
    /\ n_error' # n_error =>
          /\ n_error = "none" /\ n_pc' = "failed"
          /\ ran' = Append(ran, n_pc)
          /\ n_pc \in {"convert_1", "convert_2", "convert_3", "show_example"}
                => n_error' = "IndexError"
          /\ UNCHANGED <<data_files, out_files, n_vars, cfg, n_trainer>>
    /\ m_error' # m_error =>
          /\ m_error = "none" /\ m_pc' = "failed"
          /\ UNCHANGED <<m_data, m_tokenizer, m_heap, m_tokenized, m_prompts,
                         m_trainer, m_files, m_run, ft_model, m_peft>>
    /\ b_error' # b_error =>
          /\ b_error = "none" /\ b_pc' = "failed"
          /\ ran' = Append(ran, b_pc)
          /\ \A v \in DOMAIN b_vars : v \in DOMAIN b_vars' /\ b_vars'[v] = b_vars[v]
          /\ UNCHANGED b_out

\* C16: nothing handles a failure: when a library call or a helper raises,
\* the exception leaves the cell as it was raised and ends the run: the
\* statement is not run again, no later statement runs, and the variables,
\* the configuration, the trainer and the files that earlier statements
\* left behind keep their values.
C16_FailureEndsTheRun ==
    [][ /\ ~Failed
        /\ RaisingStep
        /\ (n_pc' = "failed" => n_error' # "none")
        /\ (m_pc' = "failed" => m_error' # "none")
        /\ (b_pc' = "failed" => b_error' # "none") ]_vars

\* C16 witness: the second convert_to_jsonl call raised IndexError in
\* form_question after the first call had bound test_json_objs and written
\* its file; the run has stopped there.
C16_Witness ==
    /\ n_pc = "failed"
    /\ n_error = "IndexError"
    /\ ran[Len(ran)] = "convert_2"
    /\ n_vars["test_json_objs"].bound
    /\ ~n_vars["train_json_objs"].bound
    /\ out_files["pubmedqa_test.jsonl"].exists
    /\ ~out_files["pubmedqa_train.jsonl"].exists

-----------------------------------------------------------------------------
(* Claims about the Mixtral notebook: the static values.                     *)

\* the values the markdown cells give: "I used 300 training steps", "we
\* will use r=32 and lora_alpha=64", and the linear layers QLoRA is applied to
DocumentedSteps == 300

DocumentedLora ==
    [r |-> 32, lora_alpha |-> 64,
     target_modules |-> {"q_proj", "k_proj", "v_proj", "o_proj", "w1", "w2", "w3", "lm_head"}]

\* a LoRA configuration has the documented values
AsDocumented(c) ==
    /\ c.r = DocumentedLora.r
    /\ c.lora_alpha = DocumentedLora.lora_alpha
    /\ Len(c.target_modules) = Cardinality(DocumentedLora.target_modules)
    /\ {c.target_modules[i] : i \in 1..Len(c.target_modules)} = DocumentedLora.target_modules

\* the cells from the assignment of config to the end of trainer.train()
FromConfigToTrain == {"print_model_2", "tokenizer_again", "parallel", "train", "training"}

\* C17: the step count and the LoRA hyperparameters of the Mixtral notebook
\* are static values passed verbatim: from the cell that assigns config to
\* the end of trainer.train(), config and the adapter configuration of model
\* have r = 32, lora_alpha = 64 and the eight documented target modules, the
\* trainer is created with that model and with max_steps = 300, and no
\* statement in between changes any of these values.
C17_StaticValuesVerbatim ==
    /\ []( /\ m_pc \in FromConfigToTrain =>
                 AsDocumented(m_peft.config) /\ AsDocumented(m_peft.model_config)
           /\ m_pc = "training" =>
                 /\ m_trainer.args.max_steps = DocumentedSteps
                 /\ AsDocumented(m_trainer.peft_config)
                 /\ m_trainer.global_step <= DocumentedSteps )
    /\ [][ /\ (m_pc \in FromConfigToTrain /\ m_pc' # "restart" /\ m_pc' # "failed")
                 => m_peft' = m_peft
           /\ (m_pc = "training" /\ m_pc' = "training")
                 => /\ m_trainer'.args = m_trainer.args
                    /\ m_trainer'.peft_config = m_trainer.peft_config ]_vars

\* C17 witness: trainer.train() has made its last step with the values it
\* was given.
C17_Witness ==
    /\ m_pc = "training"
    /\ m_trainer.global_step = 300
    /\ m_trainer.peft_config = LoraConfig
    /\ m_peft.config = LoraConfig

=============================================================================
